---- MODULE Spec2Model ----
(***************************************************************************)
(* Model of src/script.js: the gesture classifier (handleGestures), the    *)
(* video-frame loop (predictWebcam), the asynchronous start-up of the      *)
(* hand-landmark model (createHandLandmarker, startWebcam) and the         *)
(* per-frame particle interpolation (animate).                             *)
(*                                                                         *)
(* Numbers.  Landmark coordinates are normalized floats; the model writes  *)
(* them in hundredths, so 0.05 is 5 and 0.5 is 50.  A                      *)
(* comparison  hypot(a) > hypot(b) * 1.2  is made on the squares:          *)
(* 100 * |a|^2 > 144 * |b|^2.  Rotation speed is kept in twentieths, so    *)
(* 1.0 is 20 and (handX - 0.5) * 5 is handX - 50.                          *)
(* Particle coordinates live in Float32Array buffers.  The model writes a  *)
(* Float32 value as the integer number of Float32 spacings (ulps) on a     *)
(* grid whose spacing is constant; the store into the buffer rounds the    *)
(* double-precision sum to the nearest grid point, ties to even.           *)
(***************************************************************************)
EXTENDS Integers, Sequences, FiniteSets, TLC

\* ---------------------------------------------------------------- bounds
PARTICLE_COUNT == 7      \* particles in total (3000 in the source)
MaxTime == 1             \* video.currentTime takes the values 0..MaxTime
MaxSeed == 2             \* number of start-up random draws considered
MaxDraw == 2             \* a start-up draw is one of the levels 0..MaxDraw
DrawSpacing == 12        \* grid points between two neighbouring levels

\* ------------------------------------------------------------- constants
NumGroups == 3           \* letters = ['A', 'I', 'C']
DefaultSpeed == 20       \* controls.autoRotateSpeed = 1.0, in twentieths

VARIABLES
  mode,             \* let mode
  autoRotateSpeed,  \* controls.autoRotateSpeed, in twentieths
  statusDiv,        \* statusDiv.innerText and statusDiv.style.color
  handLandmarker,   \* FALSE while undefined
  loaderPc,         \* position of createHandLandmarker
  loadingDisplay,   \* loading.style.display
  mediaPc,          \* state of the getUserMedia promise
  listenerAdded,    \* video has the "loadeddata" listener predictWebcam
  loadedDataFired,  \* the video element has fired "loadeddata"
  webcamRunning,    \* let webcamRunning
  predictPending,   \* predictWebcam callbacks waiting in requestAnimationFrame
  lastVideoTime,    \* let lastVideoTime
  videoTime,        \* video.currentTime
  positions,        \* pData.positions of every group
  targetPositions,  \* pData.targetPositions
  randomPositions,  \* pData.randomPositions
  spherePositions,  \* pData.spherePositions
  fuyoPositions,    \* pData.fuyoPositions
  frameTick,        \* parity of the number of animate frames run
  predictTick,      \* parity of the number of predictWebcam invocations
  handleCalls,      \* number of handleGestures calls so far
  lastResult,       \* argument of the last handleGestures call
  prevMode,         \* mode before the last handleGestures call
  prevSpeed,        \* autoRotateSpeed before the last handleGestures call
  leftTree          \* some handleGestures call set a mode other than TREE

buffers == <<targetPositions, randomPositions, spherePositions, fuyoPositions>>
loader == <<handLandmarker, loaderPc, loadingDisplay, mediaPc, listenerAdded,
            loadedDataFired, webcamRunning>>
gesture == <<mode, autoRotateSpeed, statusDiv, handleCalls, lastResult,
             prevMode, prevSpeed, leftTree>>
vars == <<mode, autoRotateSpeed, statusDiv, handLandmarker, loaderPc,
          loadingDisplay, mediaPc, listenerAdded, loadedDataFired,
          webcamRunning, predictPending, lastVideoTime, videoTime, positions,
          targetPositions, randomPositions, spherePositions, fuyoPositions,
          frameTick, predictTick, handleCalls, lastResult, prevMode,
          prevSpeed, leftTree>>

Modes == {"TREE", "EXPLODE", "SPHERE", "FUYO"}

\* ============================================================ landmarks
Pt(px, py) == [x |-> px, y |-> py]

\* the landmark indices handleGestures reads
LandmarkIdx == {0, 4, 5, 8, 9, 12, 13, 16, 17, 20}

tips == <<8, 12, 16, 20>>
bases == <<5, 9, 13, 17>>

\* Math.hypot(a.x - b.x, a.y - b.y), squared
HypotSq(a, b) == (a.x - b.x) * (a.x - b.x) + (a.y - b.y) * (a.y - b.y)

\* tipDist > baseDist * (pct / 100), on the squares
Exceeds(tipSq, baseSq, pct) == 100 * 100 * tipSq > pct * pct * baseSq

\* the for loop of handleGestures over tips[0..n-1]
RECURSIVE CountOpen(_, _)
CountOpen(landmarks, n) ==
  IF n = 0 THEN 0
  ELSE LET wrist == landmarks[0]
           tip == landmarks[tips[n]]
           base == landmarks[bases[n]]
           tipDist == HypotSq(tip, wrist)
           baseDist == HypotSq(base, wrist)
       IN CountOpen(landmarks, n - 1)
            + (IF Exceeds(tipDist, baseDist, 120) THEN 1 ELSE 0)

\* GestureBranch with the pinch test made before the open-finger test
GestureBranchPinchFirst(landmarks) ==
  LET openFingers == CountOpen(landmarks, Len(tips))
      thumbIndexDist == HypotSq(landmarks[4], landmarks[8])
      isIndexOpen == Exceeds(HypotSq(landmarks[8], landmarks[0]),
                             HypotSq(landmarks[5], landmarks[0]), 110)
      isMiddleOpen == Exceeds(HypotSq(landmarks[12], landmarks[0]),
                              HypotSq(landmarks[9], landmarks[0]), 110)
  IN IF thumbIndexDist < 5 * 5 THEN "SPHERE"
     ELSE IF openFingers >= 3 THEN "EXPLODE"
     ELSE IF openFingers = 2 /\ isIndexOpen /\ isMiddleOpen THEN "FUYO"
     ELSE "TREE"

\* GestureBranch with the victory test made before the pinch test
GestureBranchVictoryFirst(landmarks) ==
  LET openFingers == CountOpen(landmarks, Len(tips))
      thumbIndexDist == HypotSq(landmarks[4], landmarks[8])
      isIndexOpen == Exceeds(HypotSq(landmarks[8], landmarks[0]),
                             HypotSq(landmarks[5], landmarks[0]), 110)
      isMiddleOpen == Exceeds(HypotSq(landmarks[12], landmarks[0]),
                              HypotSq(landmarks[9], landmarks[0]), 110)
  IN IF openFingers >= 3 THEN "EXPLODE"
     ELSE IF openFingers = 2 /\ isIndexOpen /\ isMiddleOpen THEN "FUYO"
     ELSE IF thumbIndexDist < 5 * 5 THEN "SPHERE"
     ELSE "TREE"

\* GestureBranch with the victory test using the 1.2 ratio of the loop
GestureBranchStrictVictory(landmarks) ==
  LET openFingers == CountOpen(landmarks, Len(tips))
      thumbIndexDist == HypotSq(landmarks[4], landmarks[8])
      isIndexOpen == Exceeds(HypotSq(landmarks[8], landmarks[0]),
                             HypotSq(landmarks[5], landmarks[0]), 120)
      isMiddleOpen == Exceeds(HypotSq(landmarks[12], landmarks[0]),
                              HypotSq(landmarks[9], landmarks[0]), 120)
  IN IF openFingers >= 3 THEN "EXPLODE"
     ELSE IF thumbIndexDist < 5 * 5 THEN "SPHERE"
     ELSE IF openFingers = 2 /\ isIndexOpen /\ isMiddleOpen THEN "FUYO"
     ELSE "TREE"

\* the branch handleGestures takes for the first hand
GestureBranch(landmarks) ==
  LET wrist == landmarks[0]
      openFingers == CountOpen(landmarks, Len(tips))
  IN IF openFingers >= 3 THEN "EXPLODE"
     ELSE LET thumbTip == landmarks[4]
              indexTip == landmarks[8]
              thumbIndexDist == HypotSq(thumbTip, indexTip)
              indexBase == landmarks[5]
              middleTip == landmarks[12]
              middleBase == landmarks[9]
              isIndexOpen == Exceeds(HypotSq(indexTip, wrist),
                                     HypotSq(indexBase, wrist), 110)
              isMiddleOpen == Exceeds(HypotSq(middleTip, wrist),
                                      HypotSq(middleBase, wrist), 110)
          IN IF thumbIndexDist < 5 * 5 THEN "SPHERE"
             ELSE IF openFingers = 2 /\ isIndexOpen /\ isMiddleOpen THEN "FUYO"
             ELSE "TREE"

\* statusDiv.innerText and statusDiv.style.color written by each branch
StatusOf(branch) ==
  CASE branch = "EXPLODE" ->
         [innerText |-> "Status: Hand OPEN -> Explode!", color |-> "#ff0000"]
    [] branch = "SPHERE" ->
         [innerText |-> "Status: OK Sign -> Sphere Mode!", color |-> "#00ffff"]
    [] branch = "FUYO" ->
         [innerText |-> "Status: Victory -> FUYO Mode!", color |-> "#ffff00"]
    [] branch = "TREE" ->
         [innerText |-> "Status: Hand CLOSED -> Assemble Tree",
          color |-> "#00ff00"]
    [] OTHER ->
         [innerText |-> "Status: No hand detected (Auto Tree)",
          color |-> "#fff"]

\* (handX - 0.5) * 5: handX in hundredths, the speed in twentieths
RotationSpeed(handX) == ((handX - 50) * 5 * 20) \div 100

\* handleGestures whose no-hand branch leaves controls.autoRotateSpeed alone
HandleGesturesKeepSpeed(result) ==
  IF result.hasLandmarks /\ Len(result.landmarks) > 0
  THEN /\ mode' = GestureBranch(result.landmarks[1])
       /\ statusDiv' = StatusOf(GestureBranch(result.landmarks[1]))
       /\ autoRotateSpeed' = RotationSpeed(result.landmarks[1][9].x)
  ELSE /\ mode' = "TREE"
       /\ statusDiv' = StatusOf("NONE")
       /\ autoRotateSpeed' = autoRotateSpeed

\* handleGestures that eases the rotation speed toward the new value
HandleGesturesSmoothed(result) ==
  IF result.hasLandmarks /\ Len(result.landmarks) > 0
  THEN /\ mode' = GestureBranch(result.landmarks[1])
       /\ statusDiv' = StatusOf(GestureBranch(result.landmarks[1]))
       /\ autoRotateSpeed' =
            (autoRotateSpeed + RotationSpeed(result.landmarks[1][9].x)) \div 2
  ELSE /\ mode' = "TREE"
       /\ statusDiv' = StatusOf("NONE")
       /\ autoRotateSpeed' = DefaultSpeed

\* function handleGestures(result)
HandleGestures(result) ==
  IF result.hasLandmarks /\ Len(result.landmarks) > 0
  THEN LET landmarks == result.landmarks[1]
           branch == GestureBranch(landmarks)
           handX == landmarks[9].x
       IN /\ mode' = branch
          /\ statusDiv' = StatusOf(branch)
          /\ autoRotateSpeed' = RotationSpeed(handX)
  ELSE /\ mode' = "TREE"
       /\ statusDiv' = StatusOf("NONE")
       /\ autoRotateSpeed' = DefaultSpeed


\* ============================================== detection results (inputs)
\* A detection result: landmarks is absent (hasLandmarks = FALSE) or a list
\* of hands, each a function from landmark index to a point.
NoLandmarks == [hasLandmarks |-> FALSE, landmarks |-> <<>>]
EmptyLandmarks == [hasLandmarks |-> TRUE, landmarks |-> <<>>]

Poses == {"closed", "half", "open"}
HandXs == {30, 70}
ThumbTips == {Pt(40, 23), Pt(45, 61), Pt(25, 70)}

\* a hand with the wrist at (0.50, 0.90); "half" puts a tip between 1.1 and
\* 1.2 times the base distance, "open" beyond 1.2, "closed" below 1.0
MakeHand(hx, fi, fm, fr, fp, th) ==
  (0 :> Pt(50, 90)) @@ (4 :> th)
  @@ (5 :> Pt(40, 50))
  @@ (8 :> CASE fi = "open" -> Pt(38, 20)
             [] fi = "half" -> Pt(40, 43)
             [] OTHER -> Pt(42, 60))
  @@ (9 :> Pt(hx, 48))
  @@ (12 :> CASE fm = "open" -> Pt(hx, 15)
              [] fm = "half" -> Pt(hx, 38)
              [] OTHER -> Pt(hx, 60))
  @@ (13 :> Pt(60, 52))
  @@ (16 :> IF fr = "open" THEN Pt(62, 22) ELSE Pt(58, 62))
  @@ (17 :> Pt(68, 58))
  @@ (20 :> IF fp = "open" THEN Pt(72, 32) ELSE Pt(66, 66))

Hands ==
  { MakeHand(hx, fi, fm, fr, fp, th) :
      hx \in HandXs, fi \in Poses, fm \in Poses,
      fr \in {"closed", "open"}, fp \in {"closed", "open"}, th \in ThumbTips }

\* a second hand of the same frame (numHands: 2): an open hand with a pinch
OtherHand == MakeHand(50, "open", "open", "open", "open", Pt(40, 23))

AllResults ==
  {NoLandmarks, EmptyLandmarks}
  \cup { [hasLandmarks |-> TRUE, landmarks |-> <<h>>] : h \in Hands }
  \cup { [hasLandmarks |-> TRUE, landmarks |-> <<h, OtherHand>>] :
           h \in { MakeHand(70, "closed", fm, "closed", "closed", th) :
                     fm \in Poses, th \in ThumbTips } }

\* one result per branch of handleGestures
SmallResults ==
  { NoLandmarks, EmptyLandmarks,
    [hasLandmarks |-> TRUE, landmarks |->
       <<MakeHand(30, "open", "open", "open", "closed", Pt(40, 23))>>],
    [hasLandmarks |-> TRUE, landmarks |->
       <<MakeHand(70, "open", "closed", "closed", "closed", Pt(40, 23))>>],
    [hasLandmarks |-> TRUE, landmarks |->
       <<MakeHand(30, "open", "open", "closed", "closed", Pt(25, 70)),
         OtherHand>>],
    [hasLandmarks |-> TRUE, landmarks |->
       <<MakeHand(70, "closed", "closed", "closed", "closed", Pt(25, 70))>>] }

\* ======================================================= particle buffers
Groups == 0 .. NumGroups - 1

\* const count = Math.floor(PARTICLE_COUNT / 3)
count == PARTICLE_COUNT \div 3

BufIdx == 0 .. count * 3 - 1

\* the n-th start-up random draw of run `seed`, as a grid point
Draw(seed, n) == DrawSpacing * ((seed * 17 + n * 23) % (MaxDraw + 1))

\* getFuyoPositions(count): zero-filled when no pixel of the mask is bright
GetFuyoPositions(seed, maskEmpty, n) ==
  [j \in 0 .. n * 3 - 1 |-> IF maskEmpty THEN 0 ELSE Draw(seed, 4 * j + 3)]

\* letters.forEach: the buffers of group `index` for start-up run `seed`
TreeShape(seed, index) ==
  [k \in BufIdx |-> Draw(seed, 4 * (((k \div 3) * 3 + index) * 3 + (k % 3)))]

ExplodedShape(seed, index) ==
  [k \in BufIdx |-> Draw(seed, 4 * (((k \div 3) * 3 + index) * 3 + (k % 3)) + 1)]

SphereShape(seed, index) ==
  [k \in BufIdx |-> Draw(seed, 4 * (((k \div 3) * 3 + index) * 3 + (k % 3)) + 2)]

FuyoSlice(fuyoAllPositions, index) ==
  [k \in BufIdx |->
     LET i == k \div 3
         totalIndex == i * 3 + index
     IN fuyoAllPositions[totalIndex * 3 + (k % 3)]]

\* the store of a double into a Float32Array element: num / den rounded to
\* the nearest grid point, ties to the even one
RoundF32(num, den) ==
  LET q == num \div den
      r == num % den
  IN IF 2 * r < den THEN q
     ELSE IF 2 * r > den THEN q + 1
     ELSE IF q % 2 = 0 THEN q ELSE q + 1

\* Lerp with lerpSpeed = 2: the coordinate lands beyond its target
LerpOvershoot(current, t) == RoundF32(current * 20 + (t - current) * 40, 20)

\* Lerp with lerpSpeed = 1: the coordinate jumps onto its target
LerpSnap(current, t) == RoundF32(current * 20 + (t - current) * 20, 20)

\* current += (t - current) * lerpSpeed, lerpSpeed = 0.05 = 1/20
Lerp(current, t) == RoundF32(current * 20 + (t - current), 20)

\* TargetOf with the TREE and SPHERE branches exchanged
TargetOfSwapped(m, data) ==
  IF m = "TREE" THEN data.spherePositions
  ELSE IF m = "SPHERE" THEN data.targetPositions
  ELSE IF m = "FUYO" THEN data.fuyoPositions
  ELSE data.randomPositions

\* the buffer animate reads for a mode
TargetOf(m, data) ==
  IF m = "TREE" THEN data.targetPositions
  ELSE IF m = "SPHERE" THEN data.spherePositions
  ELSE IF m = "FUYO" THEN data.fuyoPositions
  ELSE data.randomPositions

\* allParticleData[g]
PData(g) ==
  [positions |-> positions[g], targetPositions |-> targetPositions[g],
   randomPositions |-> randomPositions[g],
   spherePositions |-> spherePositions[g], fuyoPositions |-> fuyoPositions[g]]

\* ================================================================== Init
\* the state when the top-level script has run: createHandLandmarker() is at
\* its first await and animate() has run once (positions equal the tree
\* shape, so that frame moved nothing)
Startup(seeds, masks) ==
  \E seed \in seeds, maskEmpty \in masks :
    LET fuyoAllPositions == GetFuyoPositions(seed, maskEmpty, PARTICLE_COUNT)
    IN /\ mode = "TREE"
       /\ autoRotateSpeed = DefaultSpeed
       /\ statusDiv = [innerText |-> "", color |-> ""]
       /\ handLandmarker = FALSE
       /\ loaderPc = "resolving"
       /\ loadingDisplay = "block"
       /\ mediaPc = "idle"
       /\ listenerAdded = FALSE
       /\ loadedDataFired = FALSE
       /\ webcamRunning = FALSE
       /\ predictPending = 0
       /\ lastVideoTime = -1
       /\ videoTime = 0
       /\ targetPositions = [g \in Groups |-> TreeShape(seed, g)]
       /\ positions = [g \in Groups |-> TreeShape(seed, g)]
       /\ randomPositions = [g \in Groups |-> ExplodedShape(seed, g)]
       /\ spherePositions = [g \in Groups |-> SphereShape(seed, g)]
       /\ fuyoPositions = [g \in Groups |-> FuyoSlice(fuyoAllPositions, g)]
       /\ frameTick = 1
       /\ predictTick = 0
       /\ handleCalls = 0
       /\ lastResult = NoLandmarks
       /\ prevMode = "TREE"
       /\ prevSpeed = DefaultSpeed
       /\ leftTree = FALSE

Init == Startup(1 .. MaxSeed, BOOLEAN)

\* =============================================================== actions
\* animate when pData.targetPositions is the same array as pData.positions
AnimateAliased ==
  /\ positions' = [g \in Groups |->
                     [k \in BufIdx |->
                        Lerp(positions[g][k], TargetOf(mode, PData(g))[k])]]
  /\ targetPositions' = positions'
  /\ frameTick' = 1 - frameTick
  /\ UNCHANGED <<randomPositions, spherePositions, fuyoPositions, loader,
                 gesture, predictPending, lastVideoTime, videoTime,
                 predictTick>>

\* function animate(): one frame
Animate ==
  /\ positions' = [g \in Groups |->
                     [k \in BufIdx |->
                        Lerp(positions[g][k], TargetOf(mode, PData(g))[k])]]
  /\ frameTick' = 1 - frameTick
  /\ UNCHANGED <<buffers, loader, gesture, predictPending, lastVideoTime,
                 videoTime, predictTick>>

\* function startWebcam()
StartWebcam ==
  IF ~handLandmarker' THEN mediaPc' = mediaPc
  ELSE mediaPc' = "pending"

\* createHandLandmarker: FilesetResolver.forVisionTasks resolves
FilesetResolved ==
  /\ loaderPc = "resolving"
  /\ loaderPc' = "creating"
  /\ UNCHANGED <<handLandmarker, loadingDisplay, mediaPc, listenerAdded,
                 loadedDataFired, webcamRunning>>
  /\ UNCHANGED <<buffers, gesture, positions, predictPending, lastVideoTime,
                 videoTime, frameTick, predictTick>>

\* LoadRejected with the rejection caught and the webcam started all the same
LoadRejectedStartsWebcam ==
  /\ loaderPc \in {"resolving", "creating"}
  /\ loaderPc' = "failed"
  /\ mediaPc' = "pending"
  /\ UNCHANGED <<handLandmarker, loadingDisplay, listenerAdded,
                 loadedDataFired, webcamRunning>>
  /\ UNCHANGED <<buffers, gesture, positions, predictPending, lastVideoTime,
                 videoTime, frameTick, predictTick>>

\* createHandLandmarker: an awaited promise rejects; the function ends there
LoadRejected ==
  /\ loaderPc \in {"resolving", "creating"}
  /\ loaderPc' = "failed"
  /\ UNCHANGED <<handLandmarker, loadingDisplay, mediaPc, listenerAdded,
                 loadedDataFired, webcamRunning>>
  /\ UNCHANGED <<buffers, gesture, positions, predictPending, lastVideoTime,
                 videoTime, frameTick, predictTick>>

\* createHandLandmarker: HandLandmarker.createFromOptions resolves
CreateResolved ==
  /\ loaderPc = "creating"
  /\ loaderPc' = "done"
  /\ handLandmarker' = TRUE
  /\ loadingDisplay' = "none"
  /\ StartWebcam
  /\ UNCHANGED <<listenerAdded, loadedDataFired, webcamRunning>>
  /\ UNCHANGED <<buffers, gesture, positions, predictPending, lastVideoTime,
                 videoTime, frameTick, predictTick>>

\* startWebcam: the getUserMedia promise resolves and its callback runs
UserMediaGranted ==
  /\ mediaPc = "pending"
  /\ mediaPc' = "granted"
  /\ listenerAdded' = TRUE
  /\ webcamRunning' = TRUE
  /\ UNCHANGED <<handLandmarker, loaderPc, loadingDisplay, loadedDataFired>>
  /\ UNCHANGED <<buffers, gesture, positions, predictPending, lastVideoTime,
                 videoTime, frameTick, predictTick>>

\* startWebcam: the getUserMedia promise rejects; no handler is attached
UserMediaDenied ==
  /\ mediaPc = "pending"
  /\ mediaPc' = "denied"
  /\ UNCHANGED <<handLandmarker, loaderPc, loadingDisplay, listenerAdded,
                 loadedDataFired, webcamRunning>>
  /\ UNCHANGED <<buffers, gesture, positions, predictPending, lastVideoTime,
                 videoTime, frameTick, predictTick>>

\* the stream delivers a new frame: video.currentTime moves on
VideoFrame ==
  /\ mediaPc = "granted"
  /\ videoTime < MaxTime
  /\ videoTime' = videoTime + 1
  /\ UNCHANGED <<buffers, loader, gesture, positions, predictPending,
                 lastVideoTime, frameTick, predictTick>>

\* PredictBody without the test of video.currentTime against lastVideoTime
PredictBodyNoGate(result) ==
  /\ predictTick' = 1 - predictTick
  /\ lastVideoTime' = videoTime
  /\ IF handLandmarker
     THEN /\ HandleGestures(result)
          /\ handleCalls' = handleCalls + 1
          /\ lastResult' = result
          /\ prevMode' = mode
          /\ prevSpeed' = autoRotateSpeed
          /\ leftTree' = (leftTree \/ mode' # "TREE")
     ELSE UNCHANGED gesture
  /\ UNCHANGED <<handLandmarker, loaderPc, loadingDisplay, mediaPc,
                 listenerAdded, webcamRunning>>
  /\ UNCHANGED <<buffers, positions, videoTime, frameTick>>

\* the body of predictWebcam up to the requestAnimationFrame test, with the
\* result detectForVideo returns for the frame
PredictBody(result) ==
  /\ predictTick' = 1 - predictTick
  /\ IF videoTime # lastVideoTime
     THEN /\ lastVideoTime' = videoTime
          /\ IF handLandmarker
             THEN /\ HandleGestures(result)
                  /\ handleCalls' = handleCalls + 1
                  /\ lastResult' = result
                  /\ prevMode' = mode
                  /\ prevSpeed' = autoRotateSpeed
                  /\ leftTree' = (leftTree \/ mode' # "TREE")
             ELSE UNCHANGED gesture
     ELSE UNCHANGED <<lastVideoTime, gesture>>
  /\ UNCHANGED <<handLandmarker, loaderPc, loadingDisplay, mediaPc,
                 listenerAdded, webcamRunning>>
  /\ UNCHANGED <<buffers, positions, videoTime, frameTick>>

\* video fires "loadeddata" (once, for the one stream it is given): the
\* listener predictWebcam runs
LoadedData(Rs) ==
  /\ listenerAdded
  /\ ~loadedDataFired
  /\ \E result \in Rs : PredictBody(result)
  /\ loadedDataFired' = TRUE
  /\ predictPending' = predictPending + (IF webcamRunning THEN 1 ELSE 0)

\* a predictWebcam callback queued by requestAnimationFrame runs
PredictFrame(Rs) ==
  /\ predictPending > 0
  /\ \E result \in Rs : PredictBody(result)
  /\ predictPending' = predictPending - 1 + (IF webcamRunning THEN 1 ELSE 0)
  /\ UNCHANGED loadedDataFired

\* ======================================================== specifications
\* the whole program
Next ==
  \/ Animate
  \/ FilesetResolved
  \/ LoadRejected
  \/ CreateResolved
  \/ UserMediaGranted
  \/ UserMediaDenied
  \/ VideoFrame
  \/ LoadedData(SmallResults)
  \/ PredictFrame(SmallResults)

Spec == Init /\ [][Next]_vars

\* the detection pipeline alone, fed every result of AllResults; the display
\* driver delivers no further animation frame
NextClassify ==
  \/ FilesetResolved
  \/ LoadRejected
  \/ CreateResolved
  \/ UserMediaGranted
  \/ UserMediaDenied
  \/ VideoFrame
  \/ LoadedData(AllResults)
  \/ PredictFrame(AllResults)

\* the particle buffers play no part in it: one start-up draw
InitClassify == Startup({1}, {FALSE})

SpecClassify == InitClassify /\ [][NextClassify]_vars

\* ================================================================ claims
\* the vocabulary of the claims, stated on a detection result
HasHand(r) == r.hasLandmarks /\ Len(r.landmarks) > 0

FirstHand(r) == r.landmarks[1]

\* finger f (1 index, 2 middle, 3 ring, 4 pinky): dist(tip, wrist) exceeds
\* dist(base, wrist) * pct / 100
FingerOpen(h, f, pct) ==
  10000 * HypotSq(h[4 * f + 4], h[0]) > pct * pct * HypotSq(h[4 * f + 1], h[0])

OpenFingersOf(h) == Cardinality({f \in 1 .. 4 : FingerOpen(h, f, 120)})

\* thumb tip to index tip closer than 0.05
Pinch(h) == HypotSq(h[4], h[8]) < 25

Victory(h) ==
  OpenFingersOf(h) = 2 /\ FingerOpen(h, 1, 110) /\ FingerOpen(h, 2, 110)

\* C1: when the first hand of the last detection result has three or more
\* open fingers, the mode is EXPLODE, pinch or no pinch, whatever the mode
\* was before.
C1_OpenHandExplodes ==
  (handleCalls > 0 /\ HasHand(lastResult)
     /\ OpenFingersOf(FirstHand(lastResult)) >= 3)
  => mode = "EXPLODE"

C1_Witness ==
  /\ handleCalls > 1
  /\ HasHand(lastResult)
  /\ OpenFingersOf(FirstHand(lastResult)) >= 3
  /\ Pinch(FirstHand(lastResult))
  /\ prevMode = "SPHERE"
  /\ mode = "EXPLODE"

\* C2: when the first hand has fewer than three open fingers and a pinch,
\* the mode is SPHERE, also when the hand meets the victory condition.
C2_PinchIsSphere ==
  (handleCalls > 0 /\ HasHand(lastResult)
     /\ OpenFingersOf(FirstHand(lastResult)) < 3
     /\ Pinch(FirstHand(lastResult)))
  => mode = "SPHERE"

C2_Witness ==
  /\ handleCalls > 0
  /\ HasHand(lastResult)
  /\ Victory(FirstHand(lastResult))
  /\ Pinch(FirstHand(lastResult))
  /\ mode = "SPHERE"

C4_NoHandFallsBack ==
  (handleCalls > 0 /\ ~HasHand(lastResult))
  => (mode = "TREE" /\ autoRotateSpeed = DefaultSpeed)

C4_Witness ==
  /\ handleCalls > 1
  /\ lastResult = EmptyLandmarks
  /\ prevMode = "EXPLODE"
  /\ prevSpeed # DefaultSpeed
  /\ mode = "TREE"
  /\ autoRotateSpeed = DefaultSpeed

\* the mode and the rotation speed the claims assign to a detection result
ModeOfResult(r) ==
  IF ~HasHand(r) THEN "TREE"
  ELSE IF OpenFingersOf(FirstHand(r)) >= 3 THEN "EXPLODE"
  ELSE IF Pinch(FirstHand(r)) THEN "SPHERE"
  ELSE IF Victory(FirstHand(r)) THEN "FUYO"
  ELSE "TREE"

SpeedOfResult(r) ==
  \* (x/100 - 0.5) * 5 in twentieths is x - 50; 1.0 is 20
  IF HasHand(r) THEN FirstHand(r)[9].x - 50 ELSE 20

\* C5: after every handleGestures call the mode and the rotation speed are
\* the values of two functions of that call's result alone; the speed is
\* (x of landmark 9 - 0.5) * 5 whenever a hand is present.
C5_Stateless ==
  handleCalls > 0
  => /\ mode = ModeOfResult(lastResult)
     /\ autoRotateSpeed = SpeedOfResult(lastResult)

C5_Witness ==
  /\ handleCalls > 1
  /\ mode = "EXPLODE"
  /\ prevMode # "EXPLODE"
  /\ prevSpeed # autoRotateSpeed
  /\ autoRotateSpeed = SpeedOfResult(lastResult)

Abs(n) == IF n < 0 THEN -n ELSE n

\* the target buffer of group g the claims name for a mode
TargetFor(m, g) ==
  CASE m = "TREE" -> targetPositions[g]
    [] m = "SPHERE" -> spherePositions[g]
    [] m = "FUYO" -> fuyoPositions[g]
    [] m = "EXPLODE" -> randomPositions[g]

\* a step that is an invocation of predictWebcam, resp. a frame of animate
PredictStep == predictTick' # predictTick
AnimateStep == frameTick' # frameTick

\* C6: a predictWebcam invocation whose video.currentTime equals
\* lastVideoTime changes neither mode, rotation speed, status nor
\* lastVideoTime and calls handleGestures not at all; one whose time differs
\* calls it exactly once and sets lastVideoTime to that time; and nothing
\* else calls handleGestures.
C6_RepeatedFrameRejected ==
  [][ /\ PredictStep =>
           IF videoTime = lastVideoTime
           THEN UNCHANGED <<mode, autoRotateSpeed, statusDiv, lastVideoTime,
                            handleCalls>>
           ELSE handleCalls' = handleCalls + 1 /\ lastVideoTime' = videoTime
      /\ handleCalls' # handleCalls =>
           PredictStep /\ videoTime # lastVideoTime ]_vars

\* two invocations so far, one of them rejected
C6_Witness ==
  /\ handleCalls = 1
  /\ predictTick = 0
  /\ lastVideoTime = videoTime
  /\ predictPending = 1

NoDetectionYet ==
  /\ handleCalls = 0
  /\ predictTick = 0
  /\ predictPending = 0
  /\ ~listenerAdded
  /\ ~loadedDataFired
  /\ ~webcamRunning
  /\ mediaPc = "idle"
  /\ lastVideoTime = -1
  /\ mode = "TREE"
  /\ autoRotateSpeed = DefaultSpeed

\* C7: while the hand-landmark model has not been created (loading, or the
\* load failed) handleGestures has not been called, the predictWebcam loop
\* has not started and mode and rotation speed have their initial values;
\* a failed load stays failed, so this then holds for ever.
C7_NoDetectionBeforeModel ==
  /\ [](~handLandmarker => NoDetectionYet)
  /\ [](loaderPc = "failed" => ~handLandmarker)
  /\ [][loaderPc = "failed" => loaderPc' = "failed"]_vars

C7_Witness ==
  /\ loaderPc = "failed"
  /\ frameTick = 0
  /\ NoDetectionYet

\* C8: a frame of animate leaves mode, rotation speed and the four target
\* buffers as they are; a handleGestures call leaves every particle buffer
\* as it is; no step at all changes a target buffer.
C8_TargetsFrozen ==
  [][ /\ AnimateStep => UNCHANGED <<mode, autoRotateSpeed, statusDiv, buffers>>
      /\ handleCalls' # handleCalls => UNCHANGED <<positions, buffers>>
      /\ UNCHANGED buffers ]_vars

C8_Witness ==
  /\ handleCalls > 0
  /\ mode # "TREE"
  /\ frameTick = 0
  /\ positions # targetPositions

\* C9 as stated: in every frame of animate, every coordinate with a nonzero
\* offset from the target of the current mode ends strictly closer to it,
\* and not on it.
C9_StrictDecrease ==
  [][ AnimateStep =>
        \A g \in Groups, k \in BufIdx :
          LET t == TargetFor(mode, g)[k]
          IN positions[g][k] # t =>
               /\ Abs(positions'[g][k] - t) < Abs(positions[g][k] - t)
               /\ positions'[g][k] # t ]_vars

\* C9 as amended: in every frame of animate, every coordinate with a nonzero
\* offset d from the target of the current mode ends on the same side of the
\* target, not on it and no farther from it, within half a Float32 spacing
\* of 0.95 * d; it ends strictly closer when |d| is more than 10 spacings
\* and stays where it is when |d| is less than 10 spacings.
C9_DecreaseUpToRounding ==
  [][ AnimateStep =>
        \A g \in Groups, k \in BufIdx :
          LET t == TargetFor(mode, g)[k]
              d == positions[g][k] - t
              e == positions'[g][k] - t
          IN d # 0 =>
               /\ e # 0
               /\ (d > 0) = (e > 0)
               /\ Abs(e) <= Abs(d)
               /\ Abs(20 * e - 19 * d) <= 10
               /\ Abs(d) > 10 => Abs(e) < Abs(d)
               /\ Abs(d) < 10 => e = d ]_vars

\* a coordinate that has moved off the tree shape toward another target and
\* has stalled within 10 spacings of it
C9_Witness ==
  /\ handleCalls > 0
  /\ mode # "TREE"
  /\ \E g \in Groups, k \in BufIdx :
       LET t == TargetFor(mode, g)[k]
       IN /\ Abs(targetPositions[g][k] - t) > 10
          /\ positions[g][k] # t
          /\ Abs(positions[g][k] - t) <= 10

\* C10: a frame of animate leaves unchanged every coordinate that equals
\* the target of the current mode; and as long as no handleGestures call
\* has set a mode other than TREE, positions equal the tree shape.
C10_Idempotent ==
  /\ [][ AnimateStep =>
           \A g \in Groups, k \in BufIdx :
             positions[g][k] = TargetFor(mode, g)[k]
               => positions'[g][k] = positions[g][k] ]_vars
  /\ [](~leftTree => positions = targetPositions)

C10_Witness ==
  /\ ~leftTree
  /\ handleCalls > 1
  /\ frameTick = 0
  /\ positions = targetPositions
  /\ \E g \in Groups, k \in BufIdx :
       targetPositions[g][k] # spherePositions[g][k]

\* C11: whenever the last handleGestures call set mode FUYO, the ring finger
\* and the pinky of the first hand do not pass the 1.2 open test, and the
\* two fingers that pass it are the index and the middle.
C11_VictoryRingPinkyClosed ==
  (handleCalls > 0 /\ mode = "FUYO")
  => /\ HasHand(lastResult)
     /\ ~FingerOpen(FirstHand(lastResult), 3, 120)
     /\ ~FingerOpen(FirstHand(lastResult), 4, 120)
     /\ FingerOpen(FirstHand(lastResult), 1, 120)
     /\ FingerOpen(FirstHand(lastResult), 2, 120)

\* the four target values of coordinate k of group g
TargetValues(g, k) ==
  {targetPositions[g][k], spherePositions[g][k], randomPositions[g][k],
   fuyoPositions[g][k]}

\* C12: every coordinate of positions lies between the least and the
\* greatest of its four target values (tree, sphere, explode, glyph).
C12_WithinTargetHull ==
  \A g \in Groups, k \in BufIdx :
    /\ \E lo \in TargetValues(g, k) : lo <= positions[g][k]
    /\ \E hi \in TargetValues(g, k) : positions[g][k] <= hi

\* after two mode changes, a coordinate strictly inside the range of its
\* targets and on none of them
C12_Witness ==
  /\ handleCalls > 1
  /\ mode # "TREE"
  /\ prevMode # "TREE"
  /\ prevMode # mode
  /\ frameTick = 0
  /\ \E g \in Groups, k \in BufIdx :
       /\ positions[g][k] \notin TargetValues(g, k)
       /\ TargetFor(mode, g)[k] # TargetFor(prevMode, g)[k]
       /\ TargetFor(prevMode, g)[k] # targetPositions[g][k]
====
